---------------------------- MODULE Spec2Model ----------------------------
(***************************************************************************)
(* Model of the paper-processing pipeline: pipeline.py (the coordinator),  *)
(* markdown_to_transcript.py and transcript_to_expansion.py (the two       *)
(* windowed stage drivers) and convert_pdf_to_markdown.py.                 *)
(*                                                                         *)
(* Text is a sequence of one-character strings.  A file is a record        *)
(* [exists, content].  The external collaborators (the marker PDF          *)
(* converter and the chat-completion service) return any text of a bounded *)
(* length or raise.                                                        *)
(***************************************************************************)
EXTENDS Integers, Sequences, FiniteSets, TLC

\* ------------------------------------------------------------------ bounds
MaxDocLen == 3        \* characters of an input document of a direct driver call
MaxPipeLen == 1       \* characters of a document that pre-exists / is produced in a coordinator run
MaxRespLen == 2       \* characters of one completion response
MaxWindowSize == 2    \* largest window_size of a direct driver call
MaxSpin == 2          \* iterations of the windowing loop explored beyond len(lines)
MaxRuns == 2          \* coordinator runs (the user re-running the pipeline)
MaxEnvRemovals == 1   \* files removed by the environment (SpecEnv only)

\* ------------------------------------------------------------------- text
NL == "\n"
SP == " "
Char == {"a", SP, NL}        \* characters of a document
RespChar == {"a", NL}        \* characters of a completion response
Whitespace == {SP, NL}

Min(a, b) == IF a < b THEN a ELSE b
Max(a, b) == IF a > b THEN a ELSE b

\* All texts over Char of length at most n.
Str(n) == UNION {[1..k -> Char] : k \in 0..n}
RespStr(n) == UNION {[1..k -> RespChar] : k \in 0..n}

\* str.strip(): drop leading and trailing whitespace.
RECURSIVE lstrip(_)
lstrip(s) == IF s # <<>> /\ Head(s) \in Whitespace THEN lstrip(Tail(s)) ELSE s

RECURSIVE rstrip(_)
rstrip(s) ==
    IF s # <<>> /\ s[Len(s)] \in Whitespace THEN rstrip(SubSeq(s, 1, Len(s) - 1)) ELSE s

strip(s) == rstrip(lstrip(s))

\* line.rstrip('\n'): drop every trailing newline character.
RECURSIVE rstrip_nl(_)
rstrip_nl(s) ==
    IF s # <<>> /\ s[Len(s)] = NL THEN rstrip_nl(SubSeq(s, 1, Len(s) - 1)) ELSE s

\* Index of the first newline of s, 0 when there is none.
FirstNL(s) ==
    IF \E k \in 1..Len(s) : s[k] = NL
    THEN CHOOSE k \in 1..Len(s) : s[k] = NL /\ \A j \in 1..(k - 1) : s[j] # NL
    ELSE 0

\* f.readlines(): the lines of the content, each keeping its terminator.
RECURSIVE readlines(_)
readlines(s) ==
    IF s = <<>> THEN <<>>
    ELSE LET k == FirstNL(s) IN
         IF k = 0 THEN <<s>>
         ELSE <<SubSeq(s, 1, k)>> \o readlines(SubSeq(s, k + 1, Len(s)))

\* content.split('\n'): the pieces between newlines ("" splits into [""]).
RECURSIVE split_nl(_)
split_nl(s) ==
    LET k == FirstNL(s) IN
    IF k = 0 THEN <<s>>
    ELSE <<SubSeq(s, 1, k - 1)>> \o split_nl(SubSeq(s, k + 1, Len(s)))

\* sep.join(parts)
RECURSIVE join(_, _)
join(sep, parts) ==
    IF parts = <<>> THEN <<>>
    ELSE IF Len(parts) = 1 THEN parts[1]
    ELSE parts[1] \o sep \o join(sep, Tail(parts))

\* Python's seq[s:e] for any integers s, e (negative indices count from the end).
PyIndex(i, n) == IF i < 0 THEN Max(i + n, 0) ELSE Min(i, n)
PySlice(seq, s, e) ==
    LET ns == PyIndex(s, Len(seq))
        ne == PyIndex(e, Len(seq))
    IN IF ns < ne THEN SubSeq(seq, ns + 1, ne) ELSE <<>>


\* split_into_windows(lines, window_size) as a function, for window_size > 0:
\* the windows from cursor start on.
RECURSIVE split_into_windows_from(_, _, _)
split_into_windows_from(ls, ws, start) ==
    IF start < Len(ls)
    THEN LET end == Min(start + ws, Len(ls))
         IN << <<start, end, PySlice(ls, start, end)>> >> \o split_into_windows_from(ls, ws, end)
    ELSE <<>>

split_into_windows(ls, ws) == split_into_windows_from(ls, ws, 0)

\* ------------------------------------------------------------------ state
\* The files the program touches.  get_expected_paths derives the three
\* stage outputs from the PDF's name; the instruction files are the default
\* arguments of the two load_instructions functions.
PDF == "pdf"
MARKDOWN == "markdown"
TRANSCRIPT == "transcript"
EXPANSION == "expansion"
TRANSCRIPT_INSTRUCTIONS == "transcript_instructions.txt"
EXPANSION_INSTRUCTIONS == "expansion_instructions.txt"
Files == {PDF, MARKDOWN, TRANSCRIPT, EXPANSION, TRANSCRIPT_INSTRUCTIONS, EXPANSION_INSTRUCTIONS}

NoFile == [exists |-> FALSE, content |-> <<>>]
File(text) == [exists |-> TRUE, content |-> text]

\* Module-level configuration of pipeline.py.
PDF_TO_MARKDOWN_MODEL == "anthropic/claude-haiku-4.5"
TRANSCRIPT_MODEL == "anthropic/claude-haiku-4.5"
EXPANSION_MODEL == "moonshotai/kimi-k2-thinking"
TRANSCRIPT_WINDOW_SIZE == 50
EXPANSION_WINDOW_SIZE == 10

\* Default arguments of the stage drivers.
DEFAULT_MODEL == "anthropic/claude-haiku-4.5"

\* The sentinels process_window puts in the prompt.  Each is one token that
\* is not a character of any document or response of the model.
NO_PREVIOUS_CONTENT == <<"[No previous content]">>
NO_FOLLOWING_CONTENT == <<"[No following content]">>
NO_PREVIOUS_TRANSCRIPT == <<"[No previous transcript]">>
NO_PREVIOUS_EXPANSION == <<"[No previous expansion]">>

NoRequest == [stage |-> "none"]

VARIABLES
    fs,              \* the file system: file name -> [exists, content]
    entry,           \* what was started: "pipeline" (main), or one driver called directly
    pc,              \* where the process is
    window_size,     \* the running driver's window_size argument
    model,           \* the running driver's model argument
    lines,           \* the running driver's lines
    full_transcript, \* expansion driver: the whole input content
    windows,         \* the list split_into_windows is building / has built
    start_idx,       \* split_into_windows' cursor
    idx,             \* the per-window loop's index
    parts,           \* transcript_parts / expansion_parts
    prev,            \* prev_transcript / prev_expansion
    request,         \* the prompt of the completion call in flight (or the last one made)
    calls,           \* history: <<stage, window index>> of every completion call of this run
    responses,       \* history: the text each completion call of the running driver returned
    invoked,         \* history: the stages whose run_* wrapper / driver was called in this run
    verifying,       \* the stage whose output main is about to verify
    exit_status,     \* -1 while running, else the process's exit status
    error,           \* what ended the process: "none", or the exception raised
    runs,            \* number of the current run
    fs0,             \* history: the file system when the current run started
    fs_stage,        \* history: the file system when the running driver was entered
    env_removals,    \* number of files the environment has removed
    aborted,         \* history: the stage whose completion call ended the previous run
    writes           \* history: the files this run has written, in order

vars == <<fs, entry, pc, window_size, model, lines, full_transcript, windows, start_idx,
          idx, parts, prev, request, calls, responses, invoked, verifying, exit_status,
          error, runs, fs0, fs_stage, env_removals, aborted, writes>>

\* os.path.isfile
check_file_exists(filepath) == fs[filepath].exists

\* An uncaught exception (or sys.exit(1)) ends the process with status 1.
Raise(e) == /\ pc' = "exited"
            /\ exit_status' = 1
            /\ error' = e

\* The process ends normally.
Return0 == /\ pc' = "exited"
           /\ exit_status' = 0
           /\ error' = "none"

\* ------------------------------------------------- initial states
WindowSizes == (-1)..MaxWindowSize

FreshProcess(e, ws, m) ==
    /\ entry = e
    /\ pc = IF e = "pipeline" THEN "main" ELSE IF e = "transcript" THEN "T_load" ELSE "E_load"
    /\ window_size = ws
    /\ model = m
    /\ lines = <<>>
    /\ full_transcript = <<>>
    /\ windows = <<>>
    /\ start_idx = 0
    /\ idx = 0
    /\ parts = <<>>
    /\ prev = <<>>
    /\ request = NoRequest
    /\ calls = <<>>
    /\ responses = <<>>
    /\ invoked = IF e = "pipeline" THEN {} ELSE {e}
    /\ verifying = "none"
    /\ exit_status = -1
    /\ error = "none"
    /\ runs = 1
    /\ fs0 = fs
    /\ fs_stage = fs
    /\ env_removals = 0
    /\ aborted = "none"
    /\ writes = <<>>

\* python pipeline.py: any combination of the PDF, of earlier outputs and of
\* the instruction files; an earlier markdown holds any text, an earlier
\* transcript or expansion one fixed text.
InitPipeline ==
    /\ \E pdf \in {NoFile, File(<<"%PDF">>)},
          md \in {NoFile} \cup {File(t) : t \in Str(MaxPipeLen)},
          tr \in {NoFile, File(<<"a", NL>>)},
          ex \in {NoFile, File(<<"a">>)},
          ti \in {NoFile, File(<<"rules">>)},
          ei \in {NoFile, File(<<"rules">>)} :
            fs = [f \in Files |->
                    IF f = PDF THEN pdf
                    ELSE IF f = MARKDOWN THEN md
                    ELSE IF f = TRANSCRIPT THEN tr
                    ELSE IF f = EXPANSION THEN ex
                    ELSE IF f = TRANSCRIPT_INSTRUCTIONS THEN ti ELSE ei]
    /\ FreshProcess("pipeline", 0, DEFAULT_MODEL)

\* convert_markdown_to_transcript(MARKDOWN, TRANSCRIPT, window_size) called
\* directly, on any input document and with any window size.
InitTranscript ==
    /\ \E md \in {NoFile} \cup {File(t) : t \in Str(MaxDocLen)},
          ti \in {NoFile, File(<<"rules">>)} :
            fs = [f \in Files |->
                    IF f = MARKDOWN THEN md
                    ELSE IF f = TRANSCRIPT_INSTRUCTIONS THEN ti ELSE NoFile]
    /\ \E ws \in WindowSizes : FreshProcess("transcript", ws, DEFAULT_MODEL)

\* convert_transcript_to_expansion(TRANSCRIPT, EXPANSION, window_size) called
\* directly, on any input document and with any window size.
InitExpansion ==
    /\ \E tr \in {NoFile} \cup {File(t) : t \in Str(MaxDocLen)},
          ei \in {NoFile, File(<<"rules">>)} :
            fs = [f \in Files |->
                    IF f = TRANSCRIPT THEN tr
                    ELSE IF f = EXPANSION_INSTRUCTIONS THEN ei ELSE NoFile]
    /\ \E ws \in WindowSizes : FreshProcess("expansion", ws, DEFAULT_MODEL)

Init == InitPipeline \/ InitTranscript \/ InitExpansion

\* What the completion service may answer.
Responses == RespStr(MaxRespLen)

\* ------------------------------------ markdown_to_transcript.py
\* Mutant: the lines keep their terminators.
T_read_lines_keepends(content) == readlines(content)

\* Lines 129-133: f.readlines(), then rstrip('\n') on every line.
T_read_lines(content) ==
    LET raw == readlines(content)
    IN [i \in 1..Len(raw) |-> rstrip_nl(raw[i])]

\* Mutant: the instructions are not loaded before the windows are split, so
\* a missing instructions file goes unnoticed.
convert_markdown_to_transcript_load_unchecked ==
    /\ pc = "T_load"
    /\ fs_stage' = fs
    /\ IF ~fs[MARKDOWN].exists
       THEN /\ Raise("FileNotFoundError")
            /\ UNCHANGED lines
       ELSE /\ lines' = T_read_lines(fs[MARKDOWN].content)
            /\ pc' = "T_split"
            /\ UNCHANGED <<exit_status, error>>
    /\ windows' = <<>>
    /\ start_idx' = 0
    /\ UNCHANGED <<fs, entry, window_size, model, full_transcript, idx, parts, prev,
                   request, calls, responses, invoked, verifying, runs, fs0, env_removals,
                   aborted, writes>>

\* Lines 129-148: read the markdown, strip the line ends, load the
\* instructions, build the client, enter split_into_windows.
convert_markdown_to_transcript_load ==
    /\ pc = "T_load"
    /\ fs_stage' = fs
    /\ IF ~fs[MARKDOWN].exists \/ ~fs[TRANSCRIPT_INSTRUCTIONS].exists
       THEN /\ Raise("FileNotFoundError")
            /\ lines' = IF fs[MARKDOWN].exists
                        THEN T_read_lines(fs[MARKDOWN].content)
                        ELSE lines
       ELSE /\ lines' = T_read_lines(fs[MARKDOWN].content)
            /\ pc' = "T_split"
            /\ UNCHANGED <<exit_status, error>>
    /\ windows' = <<>>
    /\ start_idx' = 0
    /\ UNCHANGED <<fs, entry, window_size, model, full_transcript, idx, parts, prev,
                   request, calls, responses, invoked, verifying, runs, fs0, env_removals, aborted, writes>>

\* Mutant: the cursor skips one line after every window.
T_split_into_windows_iter_gap ==
    /\ pc = "T_split"
    /\ start_idx < Len(lines)
    /\ Len(windows) < Len(lines) + MaxSpin
    /\ LET end_idx == Min(start_idx + window_size, Len(lines))
           window_lines == PySlice(lines, start_idx, end_idx)
       IN /\ windows' = Append(windows, <<start_idx, end_idx, window_lines>>)
          /\ start_idx' = end_idx + 1
    /\ UNCHANGED <<fs, entry, pc, window_size, model, lines, full_transcript, idx, parts,
                   prev, request, calls, responses, invoked, verifying, exit_status,
                   error, runs, fs0, fs_stage, env_removals, aborted, writes>>

\* Mutant: the cursor is not advanced to the window's end.
T_split_into_windows_iter_stuck ==
    /\ pc = "T_split"
    /\ start_idx < Len(lines)
    /\ Len(windows) < Len(lines) + MaxSpin
    /\ LET end_idx == Min(start_idx + window_size, Len(lines))
           window_lines == PySlice(lines, start_idx, end_idx)
       IN /\ windows' = Append(windows, <<start_idx, end_idx, window_lines>>)
          /\ start_idx' = start_idx
    /\ UNCHANGED <<fs, entry, pc, window_size, model, lines, full_transcript, idx, parts,
                   prev, request, calls, responses, invoked, verifying, exit_status,
                   error, runs, fs0, fs_stage, env_removals, aborted, writes>>

\* Lines 28-32: one iteration of split_into_windows' loop.
T_split_into_windows_iter ==
    /\ pc = "T_split"
    /\ start_idx < Len(lines)
    /\ Len(windows) < Len(lines) + MaxSpin
    /\ LET end_idx == Min(start_idx + window_size, Len(lines))
           window_lines == PySlice(lines, start_idx, end_idx)
       IN /\ windows' = Append(windows, <<start_idx, end_idx, window_lines>>)
          /\ start_idx' = end_idx
    /\ UNCHANGED <<fs, entry, pc, window_size, model, lines, full_transcript, idx, parts,
                   prev, request, calls, responses, invoked, verifying, exit_status,
                   error, runs, fs0, fs_stage, env_removals, aborted, writes>>

\* Lines 28, 34, 152-153: the loop ends, the windows are returned and the
\* driver initialises its accumulators.
T_split_into_windows_return ==
    /\ pc = "T_split"
    /\ ~(start_idx < Len(lines))
    /\ pc' = "T_loop"
    /\ parts' = <<>>
    /\ prev' = <<>>
    /\ idx' = 0
    /\ UNCHANGED <<fs, entry, window_size, model, lines, full_transcript, windows,
                   start_idx, request, calls, responses, invoked, verifying, exit_status,
                   error, runs, fs0, fs_stage, env_removals, aborted, writes>>

\* Mutant: the previous window is taken at current_idx, not current_idx - 1.
get_window_context_self(ws, current_idx) ==
    LET prev_window == IF current_idx > 0 THEN ws[current_idx + 1][3] ELSE <<>>
        current_window == ws[current_idx + 1][3]
        next_window == IF current_idx < Len(ws) - 1 THEN ws[current_idx + 2][3] ELSE <<>>
    IN <<prev_window, current_window, next_window>>

\* Lines 37-46 (current_idx is 0-based, windows[k][2] is the k-th lines).
get_window_context(ws, current_idx) ==
    LET prev_window == IF current_idx > 0 THEN ws[current_idx][3] ELSE <<>>
        current_window == ws[current_idx + 1][3]
        next_window == IF current_idx < Len(ws) - 1 THEN ws[current_idx + 2][3] ELSE <<>>
    IN <<prev_window, current_window, next_window>>

\* Lines 65-111: the prompt process_window sends, as its interpolated fields
\* (the fixed template text around them is left out), and the model.
T_process_window(prev_orig, curr_orig, next_orig, prev_transcript, m) ==
    [stage |-> "transcript",
     prev_orig_text |-> IF prev_orig # <<>> THEN join(<<NL>>, prev_orig)
                        ELSE NO_PREVIOUS_CONTENT,
     curr_orig_text |-> join(<<NL>>, curr_orig),
     next_orig_text |-> IF next_orig # <<>> THEN join(<<NL>>, next_orig)
                        ELSE NO_FOLLOWING_CONTENT,
     prev_transcript_text |-> IF prev_transcript # <<>> THEN prev_transcript
                              ELSE NO_PREVIOUS_TRANSCRIPT,
     model |-> m]

\* Lines 155-164: the loop takes window idx, assembles its context and
\* sends the request; the process blocks in the completion call.
T_submit_window ==
    /\ pc = "T_loop"
    /\ idx < Len(windows)
    /\ LET ctx == get_window_context(windows, idx)
       IN request' = T_process_window(ctx[1], ctx[2], ctx[3], prev, model)
    /\ calls' = Append(calls, <<"transcript", idx>>)
    /\ pc' = "T_call"
    /\ UNCHANGED <<fs, entry, window_size, model, lines, full_transcript, windows,
                   start_idx, idx, parts, prev, responses, invoked, verifying,
                   exit_status, error, runs, fs0, fs_stage, env_removals, aborted, writes>>

\* Mutant: an empty result is appended like any other.
T_store_result_keep_empty(window_transcript) ==
    /\ parts' = Append(parts, window_transcript)
    /\ prev' = IF strip(window_transcript) # <<>> THEN window_transcript ELSE <<>>
    /\ idx' = idx + 1

\* Mutant: after an empty result the next window is skipped.
T_store_result_skip_next(window_transcript) ==
    /\ IF strip(window_transcript) # <<>>
       THEN /\ parts' = Append(parts, window_transcript)
            /\ prev' = window_transcript
            /\ idx' = idx + 1
       ELSE /\ parts' = parts
            /\ prev' = <<>>
            /\ idx' = idx + 2

\* Lines 113, 166-172: the call returns window_transcript; store the result.
T_store_result(window_transcript) ==
    /\ IF strip(window_transcript) # <<>>
       THEN /\ parts' = Append(parts, window_transcript)
            /\ prev' = window_transcript
       ELSE /\ parts' = parts
            /\ prev' = <<>>
    /\ idx' = idx + 1

T_completion_returns ==
    /\ pc = "T_call"
    /\ \E window_transcript \in Responses :
         /\ T_store_result(window_transcript)
         /\ responses' = Append(responses, window_transcript)
    /\ pc' = "T_loop"
    /\ UNCHANGED <<fs, entry, window_size, model, lines, full_transcript, windows,
                   start_idx, request, calls, invoked, verifying, exit_status, error,
                   runs, fs0, fs_stage, env_removals, aborted, writes>>

\* Mutant: the parts gathered so far are saved before the error leaves.
T_completion_raises_partial ==
    /\ pc = "T_call"
    /\ Raise("ServiceError")
    /\ writes' = Append(writes, TRANSCRIPT)
    /\ fs' = [fs EXCEPT ![TRANSCRIPT] = File(join(<<NL, NL>>, parts))]
    /\ UNCHANGED <<entry, window_size, model, lines, full_transcript, windows,
                   start_idx, idx, parts, prev, request, calls, responses, invoked,
                   verifying, runs, fs0, fs_stage, env_removals, aborted>>

\* Lines 99-111: the completion call raises; nothing catches it.
T_completion_raises ==
    /\ pc = "T_call"
    /\ Raise("ServiceError")
    /\ UNCHANGED <<fs, entry, window_size, model, lines, full_transcript, windows,
                   start_idx, idx, parts, prev, request, calls, responses, invoked,
                   verifying, runs, fs0, fs_stage, env_removals, aborted, writes>>

\* Lines 175-179: after the loop, join the parts, write the output file and
\* return to the caller (main verifies the output; a direct call ends).
T_write_output ==
    /\ pc = "T_loop"
    /\ ~(idx < Len(windows))
    /\ writes' = Append(writes, TRANSCRIPT)
    /\ fs' = [fs EXCEPT ![TRANSCRIPT] = File(join(<<NL, NL>>, parts))]
    /\ IF entry = "pipeline"
       THEN /\ pc' = "verify"
            /\ verifying' = "transcript"
            /\ UNCHANGED <<exit_status, error>>
       ELSE /\ Return0
            /\ UNCHANGED verifying
    /\ UNCHANGED <<entry, window_size, model, lines, full_transcript, windows, start_idx,
                   idx, parts, prev, request, calls, responses, invoked, runs, fs0,
                   fs_stage, env_removals, aborted>>

\* ------------------------------------ transcript_to_expansion.py
\* Mutant: the trailing blank lines are kept.
pop_trailing_blank_none(ls) == ls

\* Lines 119-120: drop the trailing lines that are empty after strip().
RECURSIVE pop_trailing_blank(_)
pop_trailing_blank(ls) ==
    IF ls # <<>> /\ strip(ls[Len(ls)]) = <<>>
    THEN pop_trailing_blank(SubSeq(ls, 1, Len(ls) - 1))
    ELSE ls

\* Lines 113-120: f.read(), split('\n'), then the trailing blanks popped.
E_read_lines(content) == pop_trailing_blank(split_nl(content))

\* Lines 113-139: read the transcript, split it into lines, keep the whole
\* content, load the instructions, build the client, enter split_into_windows.
convert_transcript_to_expansion_load ==
    /\ pc = "E_load"
    /\ fs_stage' = fs
    /\ IF ~fs[TRANSCRIPT].exists \/ ~fs[EXPANSION_INSTRUCTIONS].exists
       THEN /\ Raise("FileNotFoundError")
            /\ lines' = IF fs[TRANSCRIPT].exists
                        THEN E_read_lines(fs[TRANSCRIPT].content)
                        ELSE lines
            /\ full_transcript' = IF fs[TRANSCRIPT].exists THEN fs[TRANSCRIPT].content
                                  ELSE full_transcript
       ELSE /\ lines' = E_read_lines(fs[TRANSCRIPT].content)
            /\ full_transcript' = fs[TRANSCRIPT].content
            /\ pc' = "E_split"
            /\ UNCHANGED <<exit_status, error>>
    /\ windows' = <<>>
    /\ start_idx' = 0
    /\ UNCHANGED <<fs, entry, window_size, model, idx, parts, prev, request, calls,
                   responses, invoked, verifying, runs, fs0, env_removals, aborted, writes>>

\* Mutant: every window takes one line more than window_size.
E_split_into_windows_iter_long ==
    /\ pc = "E_split"
    /\ start_idx < Len(lines)
    /\ Len(windows) < Len(lines) + MaxSpin
    /\ LET end_idx == Min(start_idx + window_size, Len(lines))
           window_lines == PySlice(lines, start_idx, end_idx + 1)
       IN /\ windows' = Append(windows, <<start_idx, end_idx, window_lines>>)
          /\ start_idx' = end_idx
    /\ UNCHANGED <<fs, entry, pc, window_size, model, lines, full_transcript, idx, parts,
                   prev, request, calls, responses, invoked, verifying, exit_status,
                   error, runs, fs0, fs_stage, env_removals, aborted, writes>>

\* Lines 28-32: one iteration of split_into_windows' loop.
E_split_into_windows_iter ==
    /\ pc = "E_split"
    /\ start_idx < Len(lines)
    /\ Len(windows) < Len(lines) + MaxSpin
    /\ LET end_idx == Min(start_idx + window_size, Len(lines))
           window_lines == PySlice(lines, start_idx, end_idx)
       IN /\ windows' = Append(windows, <<start_idx, end_idx, window_lines>>)
          /\ start_idx' = end_idx
    /\ UNCHANGED <<fs, entry, pc, window_size, model, lines, full_transcript, idx, parts,
                   prev, request, calls, responses, invoked, verifying, exit_status,
                   error, runs, fs0, fs_stage, env_removals, aborted, writes>>

\* Lines 28, 34, 143-144: the loop ends, the windows are returned and the
\* driver initialises its accumulators.
E_split_into_windows_return ==
    /\ pc = "E_split"
    /\ ~(start_idx < Len(lines))
    /\ pc' = "E_loop"
    /\ parts' = <<>>
    /\ prev' = <<>>
    /\ idx' = 0
    /\ UNCHANGED <<fs, entry, window_size, model, lines, full_transcript, windows,
                   start_idx, request, calls, responses, invoked, verifying, exit_status,
                   error, runs, fs0, fs_stage, env_removals, aborted, writes>>

\* Mutant: the prompt shows the current window where the whole transcript
\* belongs.
E_process_window_local(full, curr_window, prev_expansion) ==
    [stage |-> "expansion",
     full_transcript |-> join(<<NL>>, curr_window),
     curr_window_text |-> join(<<NL>>, curr_window),
     prev_expansion_text |-> IF prev_expansion # <<>> THEN prev_expansion
                             ELSE NO_PREVIOUS_EXPANSION,
     curr_window_repeated |-> join(<<NL>>, curr_window),
     model |-> "anthropic/claude-haiku-4.5"]

\* Lines 51-96: the prompt process_window sends, as its interpolated fields
\* in template order, and the model, which is a literal of the call.
E_process_window(full, curr_window, prev_expansion) ==
    [stage |-> "expansion",
     full_transcript |-> full,
     curr_window_text |-> join(<<NL>>, curr_window),
     prev_expansion_text |-> IF prev_expansion # <<>> THEN prev_expansion
                             ELSE NO_PREVIOUS_EXPANSION,
     curr_window_repeated |-> join(<<NL>>, curr_window),
     model |-> "anthropic/claude-haiku-4.5"]

\* Lines 146-152: the loop takes window idx and sends the request; the
\* process blocks in the completion call.
E_submit_window ==
    /\ pc = "E_loop"
    /\ idx < Len(windows)
    /\ request' = E_process_window(full_transcript, windows[idx + 1][3], prev)
    /\ calls' = Append(calls, <<"expansion", idx>>)
    /\ pc' = "E_call"
    /\ UNCHANGED <<fs, entry, window_size, model, lines, full_transcript, windows,
                   start_idx, idx, parts, prev, responses, invoked, verifying,
                   exit_status, error, runs, fs0, fs_stage, env_removals, aborted, writes>>

\* Mutant: an empty result leaves the previous expansion in place.
E_store_result_stale(window_expansion) ==
    /\ IF strip(window_expansion) # <<>>
       THEN /\ parts' = Append(parts, window_expansion)
            /\ prev' = window_expansion
       ELSE /\ parts' = parts
            /\ prev' = prev
    /\ idx' = idx + 1

\* Mutant: the result is trimmed before it is appended.
E_store_result_trimmed(window_expansion) ==
    /\ IF strip(window_expansion) # <<>>
       THEN /\ parts' = Append(parts, strip(window_expansion))
            /\ prev' = window_expansion
       ELSE /\ parts' = parts
            /\ prev' = <<>>
    /\ idx' = idx + 1

\* Lines 98, 154-160: the call returns window_expansion; store the result.
E_store_result(window_expansion) ==
    /\ IF strip(window_expansion) # <<>>
       THEN /\ parts' = Append(parts, window_expansion)
            /\ prev' = window_expansion
       ELSE /\ parts' = parts
            /\ prev' = <<>>
    /\ idx' = idx + 1

E_completion_returns ==
    /\ pc = "E_call"
    /\ \E window_expansion \in Responses :
         /\ E_store_result(window_expansion)
         /\ responses' = Append(responses, window_expansion)
    /\ pc' = "E_loop"
    /\ UNCHANGED <<fs, entry, window_size, model, lines, full_transcript, windows,
                   start_idx, request, calls, invoked, verifying, exit_status, error,
                   runs, fs0, fs_stage, env_removals, aborted, writes>>

\* Lines 84-96: the completion call raises; nothing catches it.
E_completion_raises ==
    /\ pc = "E_call"
    /\ Raise("ServiceError")
    /\ UNCHANGED <<fs, entry, window_size, model, lines, full_transcript, windows,
                   start_idx, idx, parts, prev, request, calls, responses, invoked,
                   verifying, runs, fs0, fs_stage, env_removals, aborted, writes>>

\* Lines 163-167: after the loop, join the parts, write the output file and
\* return to the caller.
E_write_output ==
    /\ pc = "E_loop"
    /\ ~(idx < Len(windows))
    /\ writes' = Append(writes, EXPANSION)
    /\ fs' = [fs EXCEPT ![EXPANSION] = File(join(<<NL, NL>>, parts))]
    /\ IF entry = "pipeline"
       THEN /\ pc' = "verify"
            /\ verifying' = "expansion"
            /\ UNCHANGED <<exit_status, error>>
       ELSE /\ Return0
            /\ UNCHANGED verifying
    /\ UNCHANGED <<entry, window_size, model, lines, full_transcript, windows, start_idx,
                   idx, parts, prev, request, calls, responses, invoked, runs, fs0,
                   fs_stage, env_removals, aborted>>

\* ------------------------------------------------------ pipeline.py
\* Number of parameters each driver declares, and of positional arguments
\* its run_* wrapper passes.
TRANSCRIPT_DRIVER_PARAMS == 4
TRANSCRIPT_DRIVER_ARGS == 4
EXPANSION_DRIVER_PARAMS == 3
EXPANSION_DRIVER_ARGS == 4

\* get_expected_paths: the output file of each stage.
Output(stage) ==
    IF stage = "pdf" THEN MARKDOWN
    ELSE IF stage = "transcript" THEN TRANSCRIPT
    ELSE EXPANSION

\* Lines 115-118: the PDF must exist.
main_check_pdf ==
    /\ pc = "main"
    /\ IF ~check_file_exists(PDF)
       THEN Raise("SystemExit")
       ELSE /\ pc' = "step1"
            /\ UNCHANGED <<exit_status, error>>
    /\ UNCHANGED <<fs, entry, window_size, model, lines, full_transcript, windows,
                   start_idx, idx, parts, prev, request, calls, responses, invoked,
                   verifying, runs, fs0, fs_stage, env_removals, aborted, writes>>

\* Mutant: step 1 never converts the PDF.
main_step1_never ==
    /\ pc = "step1"
    /\ pc' = "step2"
    /\ UNCHANGED invoked
    /\ UNCHANGED <<fs, entry, window_size, model, lines, full_transcript, windows,
                   start_idx, idx, parts, prev, request, calls, responses, verifying,
                   exit_status, error, runs, fs0, fs_stage, env_removals, aborted, writes>>

\* Lines 128-133 and 59-68: step 1 is skipped when the markdown exists,
\* else run_pdf_to_markdown calls the converter.
main_step1 ==
    /\ pc = "step1"
    /\ IF check_file_exists(MARKDOWN)
       THEN /\ pc' = "step2"
            /\ UNCHANGED invoked
       ELSE /\ pc' = "pdf_call"
            /\ invoked' = invoked \cup {"pdf"}
    /\ UNCHANGED <<fs, entry, window_size, model, lines, full_transcript, windows,
                   start_idx, idx, parts, prev, request, calls, responses, verifying,
                   exit_status, error, runs, fs0, fs_stage, env_removals, aborted, writes>>

\* convert_pdf_to_markdown.py lines 64-77, 102: marker renders some text,
\* which is written to the markdown path; pipeline.py verifies next.
convert_pdf_to_markdown_returns ==
    /\ pc = "pdf_call"
    /\ \E text \in Str(MaxPipeLen) : fs' = [fs EXCEPT ![MARKDOWN] = File(text)]
    /\ writes' = Append(writes, MARKDOWN)
    /\ pc' = "verify"
    /\ verifying' = "pdf"
    /\ UNCHANGED <<entry, window_size, model, lines, full_transcript, windows, start_idx,
                   idx, parts, prev, request, calls, responses, invoked, exit_status,
                   error, runs, fs0, fs_stage, env_removals, aborted>>

\* convert_pdf_to_markdown.py lines 50-67: marker raises; nothing catches it.
convert_pdf_to_markdown_raises ==
    /\ pc = "pdf_call"
    /\ Raise("ConversionError")
    /\ UNCHANGED <<fs, entry, window_size, model, lines, full_transcript, windows,
                   start_idx, idx, parts, prev, request, calls, responses, invoked,
                   verifying, runs, fs0, fs_stage, env_removals, aborted, writes>>

\* Mutant: a missing output is reported but the pipeline goes on.
main_verify_no_exit ==
    /\ pc = "verify"
    /\ IF verifying = "pdf"
       THEN pc' = "step2" /\ UNCHANGED <<exit_status, error>>
       ELSE IF verifying = "transcript"
            THEN pc' = "step3" /\ UNCHANGED <<exit_status, error>>
            ELSE Return0
    /\ UNCHANGED <<fs, entry, window_size, model, lines, full_transcript, windows,
                   start_idx, idx, parts, prev, request, calls, responses, invoked,
                   verifying, runs, fs0, fs_stage, env_removals, aborted, writes>>

\* Lines 135-138, 147-150, 159-162: after a stage ran, its output must
\* exist; then the next step (after the expansion: lines 164-172, the end).
main_verify ==
    /\ pc = "verify"
    /\ IF ~check_file_exists(Output(verifying))
       THEN Raise("SystemExit")
       ELSE IF verifying = "pdf"
            THEN pc' = "step2" /\ UNCHANGED <<exit_status, error>>
            ELSE IF verifying = "transcript"
                 THEN pc' = "step3" /\ UNCHANGED <<exit_status, error>>
                 ELSE Return0
    /\ UNCHANGED <<fs, entry, window_size, model, lines, full_transcript, windows,
                   start_idx, idx, parts, prev, request, calls, responses, invoked,
                   verifying, runs, fs0, fs_stage, env_removals, aborted, writes>>

\* Mutant: step 2 runs the driver whether or not the transcript exists.
main_step2_no_skip ==
    /\ pc = "step2"
    /\ invoked' = invoked \cup {"transcript"}
    /\ pc' = "T_load"
    /\ window_size' = TRANSCRIPT_WINDOW_SIZE
    /\ model' = TRANSCRIPT_MODEL
    /\ UNCHANGED <<exit_status, error>>
    /\ UNCHANGED <<fs, entry, lines, full_transcript, windows, start_idx, idx, parts,
                   prev, request, calls, responses, verifying, runs, fs0, fs_stage,
                   env_removals, aborted, writes>>

\* Lines 140-145 and 73-82: step 2 is skipped when the transcript exists,
\* else run_markdown_to_transcript calls the driver with the configured
\* window size and model.
main_step2 ==
    /\ pc = "step2"
    /\ IF check_file_exists(TRANSCRIPT)
       THEN /\ pc' = "step3"
            /\ UNCHANGED <<invoked, window_size, model, exit_status, error>>
       ELSE /\ invoked' = invoked \cup {"transcript"}
            /\ IF TRANSCRIPT_DRIVER_ARGS > TRANSCRIPT_DRIVER_PARAMS
               THEN /\ Raise("TypeError")
                    /\ UNCHANGED <<window_size, model>>
               ELSE /\ pc' = "T_load"
                    /\ window_size' = TRANSCRIPT_WINDOW_SIZE
                    /\ model' = TRANSCRIPT_MODEL
                    /\ UNCHANGED <<exit_status, error>>
    /\ UNCHANGED <<fs, entry, lines, full_transcript, windows, start_idx, idx, parts,
                   prev, request, calls, responses, verifying, runs, fs0, fs_stage,
                   env_removals, aborted, writes>>

\* Lines 152-157 and 87-96: step 3 is skipped when the expansion exists (the
\* pipeline is then complete), else run_transcript_to_expansion calls the
\* driver with four positional arguments.
main_step3 ==
    /\ pc = "step3"
    /\ IF check_file_exists(EXPANSION)
       THEN /\ Return0
            /\ UNCHANGED <<invoked, window_size, model>>
       ELSE /\ invoked' = invoked \cup {"expansion"}
            /\ IF EXPANSION_DRIVER_ARGS > EXPANSION_DRIVER_PARAMS
               THEN /\ Raise("TypeError")
                    /\ UNCHANGED <<window_size, model>>
               ELSE /\ pc' = "E_load"
                    /\ window_size' = EXPANSION_WINDOW_SIZE
                    /\ model' = EXPANSION_MODEL
                    /\ UNCHANGED <<exit_status, error>>
    /\ UNCHANGED <<fs, entry, lines, full_transcript, windows, start_idx, idx, parts,
                   prev, request, calls, responses, verifying, runs, fs0, fs_stage,
                   env_removals, aborted, writes>>

\* Line 172: "To regenerate any file, simply delete it and run the pipeline
\* again."  The user runs the pipeline again on the files the last run left.
run_pipeline_again ==
    /\ pc = "exited"
    /\ entry = "pipeline"
    /\ runs < MaxRuns
    /\ pc' = "main"
    /\ runs' = runs + 1
    /\ fs0' = fs
    /\ fs_stage' = fs
    /\ window_size' = 0
    /\ model' = DEFAULT_MODEL
    /\ lines' = <<>>
    /\ full_transcript' = <<>>
    /\ windows' = <<>>
    /\ start_idx' = 0
    /\ idx' = 0
    /\ parts' = <<>>
    /\ prev' = <<>>
    /\ request' = NoRequest
    /\ calls' = <<>>
    /\ responses' = <<>>
    /\ invoked' = {}
    /\ verifying' = "none"
    /\ exit_status' = -1
    /\ error' = "none"
    /\ aborted' = IF error = "ServiceError" THEN calls[Len(calls)][1] ELSE "none"
    /\ writes' = <<>>
    /\ UNCHANGED <<fs, entry, env_removals>>

\* Line 172: a stage output is deleted by the user (or any other process)
\* while the pipeline is running.
delete_output_file ==
    /\ entry = "pipeline"
    /\ pc # "exited"
    /\ env_removals < MaxEnvRemovals
    /\ \E f \in {MARKDOWN, TRANSCRIPT, EXPANSION} :
         /\ fs[f].exists
         /\ fs' = [fs EXCEPT ![f] = NoFile]
    /\ env_removals' = env_removals + 1
    /\ UNCHANGED <<entry, pc, window_size, model, lines, full_transcript, windows,
                   start_idx, idx, parts, prev, request, calls, responses, invoked,
                   verifying, exit_status, error, runs, fs0, fs_stage, aborted, writes>>

Next == \/ main_check_pdf
        \/ main_step1
        \/ convert_pdf_to_markdown_returns
        \/ convert_pdf_to_markdown_raises
        \/ main_verify
        \/ main_step2
        \/ main_step3
        \/ convert_markdown_to_transcript_load
        \/ T_split_into_windows_iter
        \/ T_split_into_windows_return
        \/ T_submit_window
        \/ T_completion_returns
        \/ T_completion_raises
        \/ T_write_output
        \/ convert_transcript_to_expansion_load
        \/ E_split_into_windows_iter
        \/ E_split_into_windows_return
        \/ E_submit_window
        \/ E_completion_returns
        \/ E_completion_raises
        \/ E_write_output
        \/ run_pipeline_again

\* The program alone: nothing else touches its files while it runs.
Spec == Init /\ [][Next]_vars

\* The program, and an environment that may delete a stage output under it.
NextEnv == Next \/ delete_output_file

SpecEnv == Init /\ [][NextEnv]_vars

\* Lines 135-138, 147-150: the case main guards against, a stage that
\* returned without its output file being there: the file is lost between
\* the stage's return and main's verification.
lose_stage_output ==
    /\ entry = "pipeline"
    /\ pc = "verify"
    /\ env_removals < MaxEnvRemovals
    /\ fs[Output(verifying)].exists
    /\ fs' = [fs EXCEPT ![Output(verifying)] = NoFile]
    /\ env_removals' = env_removals + 1
    /\ UNCHANGED <<entry, pc, window_size, model, lines, full_transcript, windows,
                   start_idx, idx, parts, prev, request, calls, responses, invoked,
                   verifying, exit_status, error, runs, fs0, fs_stage, aborted, writes>>

\* The program, and stages that may return without their output.
NextLost == Next \/ lose_stage_output

SpecLost == Init /\ [][NextLost]_vars

\* One stage driver called directly, with a completion service that answers
\* every call: the driver's steps without the raising calls.
NextStageRun == \/ convert_markdown_to_transcript_load
                \/ T_split_into_windows_iter
                \/ T_split_into_windows_return
                \/ T_submit_window
                \/ T_completion_returns
                \/ T_write_output
                \/ convert_transcript_to_expansion_load
                \/ E_split_into_windows_iter
                \/ E_split_into_windows_return
                \/ E_submit_window
                \/ E_completion_returns
                \/ E_write_output

\* A driver called directly with both its files present, on any document of
\* lines of "a"s and with any window size.
InitStageRun ==
    \E e \in {"transcript", "expansion"},
       doc \in UNION {[1..k -> {"a", NL}] : k \in 0..MaxDocLen},
       ws \in WindowSizes :
        /\ fs = [f \in Files |->
                    IF (e = "transcript" /\ f \in {MARKDOWN, TRANSCRIPT_INSTRUCTIONS})
                       \/ (e = "expansion" /\ f \in {TRANSCRIPT, EXPANSION_INSTRUCTIONS})
                    THEN File(IF f \in {MARKDOWN, TRANSCRIPT} THEN doc ELSE <<"rules">>)
                    ELSE NoFile]
        /\ FreshProcess(e, ws, DEFAULT_MODEL)

\* The process is sequential and keeps running, and every completion call
\* returns: a step that stays possible is eventually taken.
SpecStageRun ==
    /\ InitStageRun
    /\ [][NextStageRun]_vars
    /\ WF_vars(NextStageRun)

\* ----------------------------------------------------------------- claims
\* The driver is past split_into_windows: the Window List is complete.
InLoop == pc \in {"T_loop", "T_call", "E_loop", "E_call"}

\* The stage's driver has written its output and returned.
StageDone(stage) ==
    \/ entry = stage /\ pc = "exited" /\ exit_status = 0
    \/ entry = "pipeline" /\ pc = "verify" /\ verifying = stage

CeilDiv(a, b) == (a + b - 1) \div b

C10_WindowLineCounts ==
    window_size > 0 =>
        \A i \in 1..Len(windows) :
            /\ Len(windows[i][3]) >= 1
            /\ Len(windows[i][3]) <= window_size
            /\ i < Len(windows) => Len(windows[i][3]) = window_size

\* C10 witness: a full first window and a shorter last one.
C10_Witness ==
    /\ pc = "T_loop"
    /\ window_size = 2
    /\ Len(windows) = 2
    /\ Len(windows[1][3]) = 2
    /\ Len(windows[2][3]) = 1

\* The results kept: those that are not empty after trimming, in order.
RECURSIVE Retained(_)
Retained(rs) ==
    IF rs = <<>> THEN <<>>
    ELSE (IF strip(Head(rs)) # <<>> THEN <<Head(rs)>> ELSE <<>>) \o Retained(Tail(rs))

\* The texts, with exactly two newlines between consecutive ones.
RECURSIVE BlankLineSeparated(_)
BlankLineSeparated(texts) ==
    IF texts = <<>> THEN <<>>
    ELSE IF Len(texts) = 1 THEN texts[1]
    ELSE BlankLineSeparated(SubSeq(texts, 1, Len(texts) - 1)) \o <<NL, NL>> \o texts[Len(texts)]

\* C2: when a stage run is done, its output file holds the results of
\* exactly the windows whose result is not empty after trimming, in window
\* order, separated by two newlines, with no leading or trailing separator;
\* an empty result adds nothing, not even a separator.
C2_OutputIsJoinOfRetained ==
    /\ StageDone("transcript") =>
          fs[TRANSCRIPT] = File(BlankLineSeparated(Retained(responses)))
    /\ StageDone("expansion") =>
          fs[EXPANSION] = File(BlankLineSeparated(Retained(responses)))

\* C2 witness: three windows, the middle result empty after trimming.
C2_Witness ==
    /\ StageDone("transcript")
    /\ responses = << <<"a">>, <<NL>>, <<"a", "a">> >>
    /\ fs[TRANSCRIPT].content = <<"a", NL, NL, "a", "a">>

\* The continuity state the driver holds after k results: the k-th result
\* (trimmed, or as returned) when it is not empty after trimming, else the
\* empty string.
ContinuityTrimmed(k) ==
    IF k = 0 THEN <<>>
    ELSE IF strip(responses[k]) # <<>> THEN strip(responses[k]) ELSE <<>>

ContinuityAsReturned(k) ==
    IF k = 0 THEN <<>>
    ELSE IF strip(responses[k]) # <<>> THEN responses[k] ELSE <<>>

\* What process_window shows for a continuity state.
Shown(state, sentinel) == IF state = <<>> THEN sentinel ELSE state

\* C3 as claimed: the continuity state is empty ("no previous output")
\* before window 0 and after window i it is window i's TRIMMED result when
\* that is not empty, else empty; the next request carries that state.
C3_ContinuityIsTrimmedResult ==
    InLoop =>
        /\ Len(responses) = idx
        /\ prev = ContinuityTrimmed(idx)

\* C3 amended: the continuity state is empty before window 0 and after
\* window i it is window i's result exactly as returned (not trimmed) when
\* that is not empty after trimming, else empty, whatever it was before; the
\* request for the next window carries exactly that state, shown as the
\* "no previous" sentinel when empty.
C3_ContinuityIsReturnedResult ==
    InLoop =>
        /\ Len(responses) = idx
        /\ prev = ContinuityAsReturned(idx)
        /\ pc = "T_call" =>
              request.prev_transcript_text = Shown(ContinuityAsReturned(idx), NO_PREVIOUS_TRANSCRIPT)
        /\ pc = "E_call" =>
              request.prev_expansion_text = Shown(ContinuityAsReturned(idx), NO_PREVIOUS_EXPANSION)

\* C3 witness: window 0's result was blank, window 1's had a leading
\* newline, and the request for window 2 carries it untrimmed.
C3_Witness ==
    /\ pc = "T_call"
    /\ idx = 2
    /\ responses = << <<NL>>, <<NL, "a">> >>
    /\ request.prev_transcript_text = <<NL, "a">>

Stages == {"pdf", "transcript", "expansion"}

\* The stages main reaches after the given one.
LaterStages(stage) ==
    IF stage = "pdf" THEN {"transcript", "expansion"}
    ELSE IF stage = "transcript" THEN {"expansion"}
    ELSE {}

\* C4: in a coordinator run, a stage whose output file exists when the run
\* starts is never invoked (neither its driver nor any completion call of
\* it) and its output file stays as it was; each stage independently.
C4_ExistingOutputSkipsStage ==
    entry = "pipeline" =>
        \A stage \in Stages :
            fs0[Output(stage)].exists =>
                /\ stage \notin invoked
                /\ \A k \in 1..Len(calls) : calls[k][1] # stage
                /\ fs[Output(stage)] = fs0[Output(stage)]

\* C4 witness: a complete run that converted the PDF while the transcript
\* and the expansion, which existed, were skipped.
C4_Witness ==
    /\ entry = "pipeline"
    /\ pc = "exited"
    /\ exit_status = 0
    /\ ~fs0[MARKDOWN].exists
    /\ fs0[TRANSCRIPT].exists
    /\ fs0[EXPANSION].exists
    /\ invoked = {"pdf"}

\* C5 as claimed: a coordinator run that starts with the PDF (and both
\* instruction files) present and in which neither the converter nor a
\* completion call fails ends complete: exit status 0, the three outputs
\* exist, and exactly the stages whose output was missing were run.
C5_PipelineCompletes ==
    ( /\ entry = "pipeline"
      /\ pc = "exited"
      /\ fs0[PDF].exists
      /\ fs0[TRANSCRIPT_INSTRUCTIONS].exists
      /\ fs0[EXPANSION_INSTRUCTIONS].exists
      /\ error \notin {"ServiceError", "ConversionError"} )
    => /\ exit_status = 0
       /\ \A stage \in Stages : fs[Output(stage)].exists
       /\ invoked = {stage \in Stages : ~fs0[Output(stage)].exists}

\* C6 as claimed: with window_size <= 0 the windower yields no window, no
\* completion call is made, and a driver that got past reading its inputs
\* ends with an InvalidConfiguration error without writing its output.
C6_InvalidWindowSizeRejected ==
    window_size <= 0 /\ entry # "pipeline" =>
        /\ windows = <<>>
        /\ calls = <<>>
        /\ (pc = "exited" /\ error # "FileNotFoundError") =>
              (error = "InvalidConfiguration" /\ fs = fs_stage)

\* C7: when the completion call for window i raises, the stage stops there:
\* the process ends with that error, windows 0..i and no others were
\* submitted, in order, no file was written since the driver was entered,
\* and in a coordinator run the stage's output is still missing, so that
\* the next run enters the stage again and its first request is window 0.
C7_AbortWritesNothing ==
    /\ (pc = "exited" /\ error = "ServiceError") =>
          /\ exit_status = 1
          /\ calls # <<>>
          /\ calls[Len(calls)][2] = idx
          /\ Len(responses) = idx
          /\ \A k \in 1..Len(calls) : calls[k][2] <= idx
          /\ fs = fs_stage
          /\ entry = "pipeline" => ~fs[Output(calls[Len(calls)][1])].exists
    /\ \A k \in 1..Len(calls) :
          calls[k][2] = IF k = 1 \/ calls[k - 1][1] # calls[k][1] THEN 0
                        ELSE calls[k - 1][2] + 1
    /\ (aborted = "transcript" /\ pc = "step3") =>
          ("transcript" \in invoked /\ calls # <<>> /\ calls[1] = <<"transcript", 0>>)

\* C7 witness: window 0 was transformed and kept, the call for window 1
\* raised, window 2 was never submitted.
C7_Witness ==
    /\ pc = "exited"
    /\ error = "ServiceError"
    /\ Len(windows) = 3
    /\ idx = 1
    /\ parts # <<>>
    /\ calls = << <<"transcript", 0>>, <<"transcript", 1>> >>

\* C8 (a): a run that finds the PDF missing exits with status 1 having
\* invoked no stage and created no file.
C8_MissingPdf ==
    (entry = "pipeline" /\ ~fs0[PDF].exists) =>
        /\ pc \in {"main", "exited"}
        /\ invoked = {}
        /\ calls = <<>>
        /\ \A f \in Files : fs[f].exists => fs0[f].exists
        /\ pc = "exited" => exit_status = 1

\* C8 (b): when main verifies a stage that returned and finds its output
\* missing, the process exits with status 1 and no further stage is invoked.
C8_VerifyStep ==
    (pc = "verify" /\ ~fs[Output(verifying)].exists /\ pc' # pc) =>
        /\ pc' = "exited"
        /\ exit_status' = 1
        /\ invoked' = invoked
        /\ invoked \cap LaterStages(verifying) = {}

\* C8: the coordinator exits with a non-zero status (a) when the input PDF
\* is missing, with no stage invoked and no file created, and (b) when a
\* stage it ran returned without its output file, with no later stage invoked.
C8_ExitsNonZero == []C8_MissingPdf /\ [][C8_VerifyStep]_vars

\* C8 witness: the transcript stage ran and returned, its output was gone
\* when main verified it, and the run ended with status 1 before step 3.
C8_Witness ==
    /\ entry = "pipeline"
    /\ pc = "exited"
    /\ exit_status = 1
    /\ error = "SystemExit"
    /\ verifying = "transcript"
    /\ responses # <<>>
    /\ ~fs[TRANSCRIPT].exists
    /\ "expansion" \notin invoked

\* C9: in the transcript stage, the request for window i of N shows the "no
\* previous content" sentinel iff i = 0 and otherwise window i-1's lines, the
\* "no following content" sentinel iff i = N-1 and otherwise window i+1's
\* lines, and always window i's lines as the current content.  (A shown text
\* read back with split gives the lines it was built from.)
C9_NeighbourContext ==
    pc = "T_call" =>
        LET N == Len(windows)
            i == idx
        IN /\ N >= 1 /\ i < N
           /\ (request.prev_orig_text = NO_PREVIOUS_CONTENT) <=> (i = 0)
           /\ i > 0 => split_nl(request.prev_orig_text) = windows[i][3]
           /\ (request.next_orig_text = NO_FOLLOWING_CONTENT) <=> (i = N - 1)
           /\ i < N - 1 => split_nl(request.next_orig_text) = windows[i + 2][3]
           /\ split_nl(request.curr_orig_text) = windows[i + 1][3]

\* C9 witness: the middle window of three; the previous window is one empty
\* line (shown as the empty text, not as the sentinel), the next is "a".
C9_Witness ==
    /\ pc = "T_call"
    /\ idx = 1
    /\ Len(windows) = 3
    /\ request.prev_orig_text = <<>>
    /\ request.next_orig_text = <<"a">>

\* C11: a stage driver that has read an empty input document has an empty
\* Window List, makes no completion call, and ends (a direct call with
\* status 0) having written an output file with empty content.
C11_EmptyDocument ==
    /\ ( /\ fs_stage[MARKDOWN] = File(<<>>)
         /\ \/ pc \in {"T_split", "T_loop", "T_call"}
            \/ StageDone("transcript")
            \/ entry = "transcript" /\ pc = "exited" /\ error # "FileNotFoundError" )
       => /\ lines = <<>> /\ windows = <<>>
          /\ pc # "T_call" /\ calls = <<>> /\ responses = <<>>
          /\ pc = "T_split" => ENABLED T_split_into_windows_return
          /\ pc = "T_loop" => ENABLED T_write_output
          /\ pc \notin {"T_split", "T_loop"} =>
                (fs[TRANSCRIPT] = File(<<>>) /\ writes # <<>> /\ writes[Len(writes)] = TRANSCRIPT)
          /\ pc = "exited" => exit_status = 0
    /\ ( /\ fs_stage[TRANSCRIPT] = File(<<>>)
         /\ \/ pc \in {"E_split", "E_loop", "E_call"}
            \/ StageDone("expansion")
            \/ entry = "expansion" /\ pc = "exited" /\ error # "FileNotFoundError" )
       => /\ lines = <<>> /\ windows = <<>>
          /\ pc # "E_call" /\ calls = <<>> /\ responses = <<>>
          /\ pc = "E_split" => ENABLED E_split_into_windows_return
          /\ pc = "E_loop" => ENABLED E_write_output
          /\ pc \notin {"E_split", "E_loop"} =>
                (fs[EXPANSION] = File(<<>>) /\ writes = <<EXPANSION>>)
          /\ pc = "exited" => exit_status = 0

\* C11 witness: the expansion driver, called on an empty transcript, ended
\* with status 0 and an empty expansion file, having made no call.
C11_Witness ==
    /\ entry = "expansion"
    /\ pc = "exited"
    /\ exit_status = 0
    /\ fs_stage[TRANSCRIPT] = File(<<>>)
    /\ windows = <<>>
    /\ calls = <<>>
    /\ fs[EXPANSION] = File(<<>>)

\* C12 as claimed: every completion request of the transcript stage carries
\* TRANSCRIPT_MODEL and every completion request of the expansion stage
\* carries EXPANSION_MODEL, the models pipeline.py configures.
C12_RequestCarriesConfiguredModel ==
    /\ pc = "T_call" => (request.stage = "transcript" /\ request.model = TRANSCRIPT_MODEL)
    /\ pc = "E_call" => (request.stage = "expansion" /\ request.model = EXPANSION_MODEL)

\* The completion calls of a stage, in the order they were made.
CallsOf(stage) == SelectSeq(calls, LAMBDA c : c[1] = stage)

\* How many times the run has written the file.
TimesWritten(f) == Cardinality({k \in 1..Len(writes) : writes[k] = f})

\* The stage whose driver is at pc.
StageAt(p) ==
    IF p \in {"T_load", "T_split", "T_loop", "T_call"} THEN "transcript"
    ELSE IF p \in {"E_load", "E_split", "E_loop", "E_call"} THEN "expansion"
    ELSE "none"

\* C13: while a driver is in its per-window loop it has called the
\* transformer for windows 0, 1, ..., in that order, once each, up to the
\* current one, every call so far has returned one result, and it has not
\* written its output; when the stage is done over N windows there were
\* exactly N calls, for windows 0..N-1 in order, N results (empty ones
\* included), and the output file was written exactly once.
C13_OneCallPerWindowInOrder ==
    /\ InLoop =>
          LET cs == CallsOf(StageAt(pc))
              n == IF pc \in {"T_call", "E_call"} THEN idx + 1 ELSE idx
          IN /\ Len(cs) = n
             /\ n <= Len(windows)
             /\ \A k \in 1..n : cs[k] = <<StageAt(pc), k - 1>>
             /\ Len(responses) = idx
             /\ TimesWritten(Output(StageAt(pc))) = 0
    /\ \A stage \in {"transcript", "expansion"} :
          StageDone(stage) =>
              LET cs == CallsOf(stage)
                  N == Len(windows)
              IN /\ Len(cs) = N
                 /\ \A k \in 1..N : cs[k] = <<stage, k - 1>>
                 /\ Len(responses) = N
                 /\ idx = N
                 /\ TimesWritten(Output(stage)) = 1
                 /\ writes[Len(writes)] = Output(stage)

\* C13 witness: a run over three windows whose second result was empty:
\* three calls, for windows 0, 1, 2, and one write at the end.
C13_Witness ==
    /\ StageDone("transcript")
    /\ Len(windows) = 3
    /\ strip(responses[2]) = <<>>
    /\ calls = << <<"transcript", 0>>, <<"transcript", 1>>, <<"transcript", 2>> >>
    /\ writes = <<TRANSCRIPT>>

\* The results kept, each trimmed of surrounding whitespace.
RECURSIVE RetainedTrimmed(_)
RetainedTrimmed(rs) ==
    IF rs = <<>> THEN <<>>
    ELSE (IF strip(Head(rs)) # <<>> THEN <<strip(Head(rs))>> ELSE <<>>)
         \o RetainedTrimmed(Tail(rs))

\* C14 as claimed: the accumulated output list holds, for every window whose
\* result is not empty after trimming, the TRIMMED result, and the output
\* document is the trimmed results joined by two newlines.
C14_AppendedTrimmed ==
    /\ InLoop => parts = RetainedTrimmed(responses)
    /\ StageDone("transcript") =>
          fs[TRANSCRIPT].content = BlankLineSeparated(RetainedTrimmed(responses))
    /\ StageDone("expansion") =>
          fs[EXPANSION].content = BlankLineSeparated(RetainedTrimmed(responses))

\* C14 amended: the accumulated output list holds, for every window whose
\* result is not empty after trimming, the result exactly as returned (its
\* surrounding whitespace included), and the output document is those raw
\* results joined by two newlines.
C14_AppendedAsReturned ==
    /\ InLoop => parts = Retained(responses)
    /\ \A stage \in {"transcript", "expansion"} :
          StageDone(stage) =>
              /\ parts = Retained(responses)
              /\ fs[Output(stage)].content = join(<<NL, NL>>, Retained(responses))

\* C14 witness: two results with surrounding newlines; the expansion file
\* holds them untrimmed: "\na" + "\n\n" + "a\n".
C14_Witness ==
    /\ StageDone("expansion")
    /\ responses = << <<NL, "a">>, <<"a", NL>> >>
    /\ fs[EXPANSION].content = <<NL, "a", NL, NL, "a", NL>>

\* The input file and the instructions file of a stage's driver.
InputOf(stage) == IF stage = "transcript" THEN MARKDOWN ELSE TRANSCRIPT
InstructionsOf(stage) ==
    IF stage = "transcript" THEN TRANSCRIPT_INSTRUCTIONS ELSE EXPANSION_INSTRUCTIONS

\* C15, on entry: a driver that has not yet read its files has made no
\* completion call and written no output; a process that ended with
\* FileNotFoundError has status 1, made no completion call in the run and
\* wrote neither the transcript nor the expansion.
C15_NothingBeforeLoad ==
    /\ pc \in {"T_load", "E_load"} =>
          (CallsOf(StageAt(pc)) = <<>> /\ TimesWritten(Output(StageAt(pc))) = 0)
    /\ error = "FileNotFoundError" =>
          /\ pc = "exited" /\ exit_status = 1
          /\ calls = <<>> /\ request = NoRequest
          /\ TimesWritten(TRANSCRIPT) = 0 /\ TimesWritten(EXPANSION) = 0
          /\ fs = fs_stage

\* C15, the step: when a driver reads its files and the input file or the
\* instructions file is missing, the process ends there with
\* FileNotFoundError, and the step makes no call and writes no file.
C15_LoadStep ==
    ( /\ pc \in {"T_load", "E_load"}
      /\ pc' # pc
      /\ ~fs[InputOf(StageAt(pc))].exists \/ ~fs[InstructionsOf(StageAt(pc))].exists )
    => /\ pc' = "exited"
       /\ error' = "FileNotFoundError"
       /\ exit_status' = 1
       /\ calls' = calls
       /\ writes' = writes
       /\ fs' = fs

\* C15: in each stage driver a missing input file or a missing instructions
\* file is detected before the first completion call: in every run where
\* either is missing the driver makes no call and writes no output file.
C15_MissingFileFailsFast == []C15_NothingBeforeLoad /\ [][C15_LoadStep]_vars

\* C15 witness: the transcript driver read a non-empty markdown, found the
\* instructions file missing and ended with no call and no transcript.
C15_Witness ==
    /\ entry = "transcript"
    /\ pc = "exited"
    /\ error = "FileNotFoundError"
    /\ fs[MARKDOWN].exists
    /\ ~fs[TRANSCRIPT_INSTRUCTIONS].exists
    /\ lines # <<>>
    /\ calls = <<>>
    /\ ~fs[TRANSCRIPT].exists

\* The driver at pc has read its input and derived its lines.
LinesDerived == pc \in {"T_split", "T_loop", "T_call", "E_split", "E_loop", "E_call"}

\* The content the running driver read.
InputContent == fs_stage[InputOf(StageAt(pc))].content

\* The lines the OTHER stage's driver derives from the same content.
OtherStageLines ==
    IF StageAt(pc) = "transcript" THEN E_read_lines(InputContent)
    ELSE T_read_lines(InputContent)

\* The content's last line (the text after its last line terminator, or the
\* last terminated line when the content ends with a terminator) is blank
\* or whitespace-only.
EndsInBlankLine(content) ==
    /\ content # <<>>
    /\ LET body == IF content[Len(content)] = NL
                   THEN SubSeq(content, 1, Len(content) - 1) ELSE content
           pieces == split_nl(body)
       IN strip(pieces[Len(pieces)]) = <<>>

\* C16 as claimed: from the same content and the same positive window_size
\* the two drivers derive the same lines and the same Window List, whatever
\* the content, trailing blank lines included.
C16_SameLinesAndWindows ==
    (LinesDerived /\ window_size > 0) =>
        /\ lines = OtherStageLines
        /\ InLoop => windows = split_into_windows(OtherStageLines, window_size)

\* split_into_windows has just returned the Window List to the driver.
WindowsReturned == pc \in {"T_loop", "E_loop"} /\ idx = 0

\* C16 amended: from the same content the expansion driver's lines are the
\* transcript driver's lines without their trailing blank or whitespace-only
\* lines; the lines a driver has derived are the other driver's lines, and
\* for the same positive window_size the Window List split_into_windows
\* returns to it is the other driver's, exactly when the content does not
\* end in a blank or whitespace-only line.
C16_SameLinesUnlessTrailingBlank ==
    ((pc \in {"T_split", "E_split"} \/ WindowsReturned) /\ window_size > 0) =>
        LET t_lines == T_read_lines(InputContent)
            e_lines == E_read_lines(InputContent)
            other == IF StageAt(pc) = "transcript" THEN e_lines ELSE t_lines
            blank == EndsInBlankLine(InputContent)
        IN /\ e_lines = pop_trailing_blank(t_lines)
           /\ lines = IF StageAt(pc) = "transcript" THEN t_lines ELSE e_lines
           /\ (lines = other) <=> ~blank
           /\ WindowsReturned =>
                 LET other_windows == split_into_windows(other, window_size)
                 IN /\ windows = split_into_windows(lines, window_size)
                    /\ ~blank => windows = other_windows
                    /\ blank => windows # other_windows

\* C16 witness: the expansion driver read "a\n\n" with window_size 1 and
\* has one window, where the transcript driver derives the lines "a", "".
C16_Witness ==
    /\ pc = "E_loop"
    /\ idx = 0
    /\ window_size = 1
    /\ InputContent = <<"a", NL, NL>>
    /\ lines = << <<"a">> >>
    /\ Len(windows) = 1
    /\ T_read_lines(InputContent) = << <<"a">>, <<>> >>

\* C17: every request of the expansion stage carries the whole input
\* document as read (the same text for every window), window idx's lines as
\* the current content, twice, and the continuity state or its sentinel (the
\* sentinel iff there is no previous result or it was empty); it has no
\* field for a previous or a next window.
C17_ExpansionBundle ==
    pc = "E_call" =>
        /\ DOMAIN request = {"stage", "full_transcript", "curr_window_text",
                             "prev_expansion_text", "curr_window_repeated", "model"}
        /\ request.full_transcript = fs_stage[TRANSCRIPT].content
        /\ request.full_transcript = full_transcript
        /\ request.curr_window_text = join(<<NL>>, windows[idx + 1][3])
        /\ split_nl(request.curr_window_text) = windows[idx + 1][3]
        /\ request.curr_window_repeated = request.curr_window_text
        /\ request.prev_expansion_text = Shown(prev, NO_PREVIOUS_EXPANSION)
        /\ (request.prev_expansion_text = NO_PREVIOUS_EXPANSION) <=>
              (idx = 0 \/ strip(responses[idx]) = <<>>)

\* C17, across windows: the document carried does not change within a run.
C17_SameDocumentEveryWindow ==
    (pc = "E_call" /\ pc' = "E_call") \/ (pc = "E_loop" /\ pc' = "E_call" /\ idx > 0)
        => request'.full_transcript = request.full_transcript

\* C17: in the expansion stage the bundle for every window holds the entire
\* input document, the same for every window, the window's content exactly
\* twice, and the previous-output continuity state (or its sentinel), and no
\* previous-window or next-window input context.
C17_ExpansionContext == []C17_ExpansionBundle /\ [][C17_SameDocumentEveryWindow]_vars

\* C17 witness: the request for the second of three windows carries the
\* whole three-line document and the first window's result.
C17_Witness ==
    /\ pc = "E_call"
    /\ idx = 1
    /\ Len(windows) = 3
    /\ request.full_transcript = <<NL, NL, "a">>
    /\ request.curr_window_text = <<>>
    /\ request.prev_expansion_text = <<"a">>

\* C18, progress: a driver started with a positive window_size (which it
\* never changes) eventually ends with status 0, every window processed and
\* its output written.
C18_ReachesDone ==
    <>(window_size > 0 =>
          (pc = "exited" /\ exit_status = 0 /\ fs[Output(entry)].exists /\ idx = Len(windows)))

\* C18, the measure: with a positive window_size every iteration of
\* split_into_windows moves the cursor strictly forward and never past the
\* last line, and every iteration of the per-window loop moves its index by
\* one and never past the last window.
C18_CursorAdvances ==
    /\ (pc \in {"T_split", "E_split"} /\ window_size > 0 /\ windows' # windows) =>
          (start_idx' > start_idx /\ start_idx' <= Len(lines) /\ Len(windows') <= Len(lines))
    /\ (InLoop /\ idx' # idx) => (idx' = idx + 1 /\ idx' <= Len(windows))

\* C18: for every positive window_size and every document, a stage run in
\* which every completion call returns eventually reaches DONE: the cursor
\* of split_into_windows strictly increases up to the number of lines and
\* the per-window loop takes one step per window.
C18_StageRunTerminates == C18_ReachesDone /\ [][C18_CursorAdvances]_vars

\* C18 witness: a run with window_size 1 over three lines that went through
\* three windows and ended with status 0.
C18_Witness ==
    /\ entry = "transcript"
    /\ pc = "exited"
    /\ exit_status = 0
    /\ window_size = 1
    /\ Len(lines) = 3
    /\ Len(windows) = 3
    /\ idx = 3
    /\ fs[TRANSCRIPT].exists

\* C19, the step: in a coordinator run, the step that invokes the
\* transcript stage is taken with the markdown file present, and the step
\* that invokes the expansion stage with the transcript file present.
C19_InvokeStep ==
    entry = "pipeline" =>
        /\ ("transcript" \in invoked' /\ "transcript" \notin invoked) => fs[MARKDOWN].exists
        /\ ("expansion" \in invoked' /\ "expansion" \notin invoked) => fs[TRANSCRIPT].exists

\* C19, the states: in a coordinator run, an invoked LLM stage has its input
\* file, the transcript driver is entered with the markdown present, and a
\* run that ended because a stage's output was missing at its verification
\* invoked no later stage.
C19_InputsPresent ==
    entry = "pipeline" =>
        /\ \A stage \in {"transcript", "expansion"} :
              stage \in invoked => fs[InputOf(stage)].exists
        /\ pc = "T_load" => (fs[MARKDOWN].exists /\ "transcript" \in invoked)
        /\ pc = "E_load" => (fs[TRANSCRIPT].exists /\ "expansion" \in invoked)
        /\ (pc = "exited" /\ error = "SystemExit" /\ verifying # "none") =>
              /\ ~fs[Output(verifying)].exists
              /\ verifying \in invoked
              /\ invoked \cap LaterStages(verifying) = {}

\* C19: in every coordinator run a stage driver is invoked only when its
\* input file exists (the transcript stage only with the markdown, the
\* expansion stage only with the transcript), and no stage is invoked after
\* a stage that was run returned without its output.
C19_StageInvokedWithInput == []C19_InputsPresent /\ [][C19_InvokeStep]_vars

\* C19 witness: the PDF stage ran and wrote the markdown, the markdown was
\* missing at the verification, and the run ended without the transcript
\* stage being invoked.
C19_Witness ==
    /\ entry = "pipeline"
    /\ pc = "exited"
    /\ error = "SystemExit"
    /\ verifying = "pdf"
    /\ writes = <<MARKDOWN>>
    /\ ~fs[MARKDOWN].exists
    /\ invoked = {"pdf"}

=============================================================================
